---- MODULE Spec2Model ----
(***************************************************************************)
(* electron-clipboard-observer: a polling observer of the host clipboard.  *)
(*                                                                         *)
(* Two variants of the observer live in the repository:                    *)
(*   "fn"    src/index.js            clipboardObserver(option) -> {destroy} *)
(*   "class" src/unnamed/part_000    class ClipboardObserver {start, stop}  *)
(* Both are modelled; `variant` records which one was constructed.         *)
(*                                                                         *)
(* JavaScript values are tagged records, so that `undefined`, the empty    *)
(* string, numbers, functions and NativeImage objects stay distinct and    *)
(* truthiness and strict (in)equality are computed as JavaScript does.     *)
(***************************************************************************)
EXTENDS Integers, Sequences, FiniteSets, TLC

\* ------------------------------------------------------------ bounds ----
\* setInterval calls explored per run (timer handles are 1..MaxTimers).
MaxTimers == 3
\* Non-empty image contents are 1..MaxBits; 0 is the empty image.
MaxBits == 2
\* Callback invocations since the last write up to which a tick that throws
\* is explored (a change whose callback throws is delivered again and again).
MaxCalls == 2

\* The non-empty clipboard texts explored.
Texts == {"A", "B"}
\* Every text clipboard.readText() can return ("" when there is none).
ClipTexts == Texts \cup {""}
\* Every image content clipboard.readImage() can return (0: empty).
ClipBits == 0..MaxBits
\* The durations a caller passes explicitly.
GivenDurations == {100}
\* The callbacks a caller passes.
Callbacks == {"f"}
\* The values a caller assigns to the fields of a live class instance.
LiveDurations == {250}
LiveCallbacks == {"f", "g"}

\* ------------------------------------------------------ JS values -------
UNDEFINED == [t |-> "undefined"]
\* An option property that is not present on the option object at all.
NotGiven == [t |-> "notGiven"]
Str(s) == [t |-> "string", s |-> s]
Num(n) == [t |-> "number", n |-> n]
Fun(name) == [t |-> "function", name |-> name]
\* A NativeImage wrapper object: its identity and the pixels it holds.
Img(obj, bits) == [t |-> "NativeImage", obj |-> obj, bits |-> bits]
\* The handle setInterval returns.
Timeout(id) == [t |-> "Timeout", id |-> id]

\* JavaScript truthiness, as `&&` and `if` test it.
Truthy(v) ==
  CASE v.t = "undefined" -> FALSE
    [] v.t = "string" -> v.s # ""
    [] v.t = "number" -> v.n # 0
    [] OTHER -> TRUE

\* JavaScript `a !== b`: by value for primitives, by identity for objects.
StrictNotEqual(a, b) ==
  IF a.t = "NativeImage" /\ b.t = "NativeImage" THEN a.obj # b.obj ELSE a # b

\* NativeImage.isEmpty()
isEmpty(img) == img.bits = 0

\* NativeImage.toDataURL(): the PNG data URL of the pixels; it does not
\* depend on which wrapper object holds them.
toDataURL(img) == <<"data:image/png;base64,", img.bits>>

\* ---------------------------------------------------------- state -------
VARIABLES
  variant,      \* "none" before construction, then "fn" or "class" ("diff": SpecDiff)
  option,       \* the option object given to the constructor
  duration,     \* options.duration (fn) / this.duration (class)
  textChange,   \* the text callback, or UNDEFINED
  imageChange,  \* the image callback, or UNDEFINED
  timer,        \* `timer` (fn) / this.timer (class): the last handle stored
  beforeText,   \* last-known text
  beforeImage,  \* last-known image
  active,       \* the host's live interval timers: {[id, ms]}
  clipText,     \* host clipboard: text
  clipBits,     \* host clipboard: image content
  everRead,     \* history: clipboard formats ever read by the observer
  created,      \* history: number of setInterval calls so far
  seedText,     \* history: clipboard text when last seeded (kept until the second write)
  seedBits,     \* history: clipboard image content when last seeded (likewise)
  writes,       \* history: clipboard writes since the last seeding (2: two or more)
  ticked,       \* history: a tick has run since the last write or seeding
  outcome,      \* history: how the latest tick since the last write or seeding
                \*   ended: "none" (no tick yet), "returned", or what threw
  last,         \* history: per configured channel, the new value of its latest
                \*   callback invocation, or the content it was seeded with
  delivered,    \* history: callback invocations since the last write or seeding
  phase,        \* history: "running" | "stopped" | "restarted" | "destroyed"
  pausedWrite,  \* history: the clipboard was written between stop() and start()
  probe         \* a diff predicate applied to given arguments (SpecDiff)

vars == <<variant, option, duration, textChange, imageChange, timer, beforeText,
          beforeImage, active, clipText, clipBits, everRead, created,
          seedText, seedBits, writes, ticked, outcome, last, delivered, phase,
          pausedWrite, probe>>

observer == <<variant, option, duration, textChange, imageChange, timer,
              beforeText, beforeImage, active>>
clipboard == <<clipText, clipBits>>
history == <<everRead, created, seedText, seedBits, writes, ticked, outcome,
             last, delivered, phase, pausedWrite>>

NoProbe ==
  [fn |-> "none", before |-> UNDEFINED, after |-> UNDEFINED, done |-> FALSE,
   threw |-> FALSE, diff |-> FALSE]

\* ------------------------------------------------- host capability -----
\* clipboard.readText()
readText == Str(clipText)

\* clipboard.readImage(): a fresh wrapper object around the clipboard's
\* pixels, distinct from the wrapper the observer still holds.
readImage(held) ==
  Img(IF held.t = "NativeImage" /\ held.obj = 1 THEN 2 ELSE 1, clipBits)

\* setInterval(fn, ms): a new live timer; its interval is fixed when it is made.
setInterval(ms) == active \cup {[id |-> created + 1, ms |-> ms]}

\* clearInterval(handle): clearing undefined or a dead handle does nothing.
clearInterval(handle) ==
  IF handle.t = "Timeout" THEN {a \in active : a.id # handle.id} ELSE active

\* ---------------------------------------------------- diff predicates --
\* src/index.js: beforeText && afterText && beforeText !== afterText
isDiffText(before, after) ==
  Truthy(before) /\ Truthy(after) /\ StrictNotEqual(before, after)

\* class variant: afterText && beforeText !== afterText
ClipboardObserver_isDiffText(before, after) ==
  Truthy(after) /\ StrictNotEqual(before, after)

\* afterImage && !afterImage.isEmpty() && beforeImage.toDataURL() evaluated on
\* undefined: the predicate throws a TypeError instead of returning.
isDiffImageThrows(before, after) ==
  Truthy(after) /\ ~isEmpty(after) /\ before.t # "NativeImage"

\* Mutant: the images compared as objects, not by their data URLs.
isDiffImage_byIdentity(before, after) ==
  /\ Truthy(after)
  /\ ~isEmpty(after)
  /\ StrictNotEqual(before, after)

\* afterImage && !afterImage.isEmpty()
\*   && beforeImage.toDataURL() !== afterImage.toDataURL()
\* (the same text in both variants)
isDiffImage(before, after) ==
  /\ Truthy(after)
  /\ ~isEmpty(after)
  /\ toDataURL(before) # toDataURL(after)

\* ------------------------------------------------------------- tick -----
Call(ch, cb, new, prev) == [ch |-> ch, cb |-> cb.name, new |-> new, prev |-> prev]

\* What can throw inside one timer callback: a clipboard read, or a callback.
\* At most one of them does, since the first exception ends the callback.
Faults == {"readText", "textChange", "readImage", "imageChange"}

\* Mutant: every text read is stored as the last-known text.
TickText_storesEveryRead(diff, fault) ==
  IF Truthy(textChange)
    THEN [read |-> {"text"}, threw |-> "none", before |-> readText,
          calls |-> IF diff
                      THEN <<Call("text", textChange, readText, beforeText)>>
                      ELSE <<>>]
    ELSE [read |-> {}, threw |-> "none", before |-> beforeText, calls |-> <<>>]

\* Mutant: the tick invokes the text callback the constructor was given.
TickText_constructorCallback(diff, fault) ==
  IF Truthy(textChange) /\ diff
    THEN [read |-> {"text"}, threw |-> "none", before |-> readText,
          calls |-> <<Call("text",
                           IF Truthy(option.textChange) THEN option.textChange
                                                        ELSE textChange,
                           readText, beforeText)>>]
    ELSE [read |-> IF Truthy(textChange) THEN {"text"} ELSE {},
          threw |-> "none", before |-> beforeText, calls |-> <<>>]

\* Mutant: the text callback is invoked but the text read is not stored.
TickText_neverStores(diff, fault) ==
  IF Truthy(textChange)
    THEN [read |-> {"text"}, threw |-> "none", before |-> beforeText,
          calls |-> IF diff
                      THEN <<Call("text", textChange, readText, beforeText)>>
                      ELSE <<>>]
    ELSE [read |-> {}, threw |-> "none", before |-> beforeText, calls |-> <<>>]

\* The text half of one timer callback: read, compare, call back, record.
\* `diff` is the answer of the variant's text predicate on
\* (beforeText, the text just read); `fault` is what throws, or "none".
\* A throw leaves the half at once: the statements after it do not run.
TickText(diff, fault) ==
  IF Truthy(textChange)
    THEN IF fault = "readText"
      THEN [read |-> {"text"}, threw |-> "readText", before |-> beforeText,
            calls |-> <<>>]
      ELSE LET text == readText IN
           IF diff
             THEN IF fault = "textChange"
               THEN [read |-> {"text"}, threw |-> "textChange",
                     before |-> beforeText,
                     calls |-> <<Call("text", textChange, text, beforeText)>>]
               ELSE [read |-> {"text"}, threw |-> "none", before |-> text,
                     calls |-> <<Call("text", textChange, text, beforeText)>>]
             ELSE [read |-> {"text"}, threw |-> "none", before |-> beforeText,
                   calls |-> <<>>]
    ELSE [read |-> {}, threw |-> "none", before |-> beforeText, calls |-> <<>>]

\* Mutant: the image is read on every tick, configured or not.
TickImage_alwaysReads(fault) ==
  LET image == readImage(beforeImage) IN
  IF Truthy(imageChange) /\ ~isDiffImageThrows(beforeImage, image)
       /\ isDiffImage(beforeImage, image)
    THEN [read |-> {"image"}, threw |-> "none", before |-> image,
          calls |-> <<Call("image", imageChange, image, beforeImage)>>]
    ELSE [read |-> {"image"}, threw |-> "none", before |-> beforeImage,
          calls |-> <<>>]

\* The image half of one timer callback.
TickImage(fault) ==
  IF Truthy(imageChange)
    THEN IF fault = "readImage"
      THEN [read |-> {"image"}, threw |-> "readImage", before |-> beforeImage,
            calls |-> <<>>]
      ELSE LET image == readImage(beforeImage) IN
           IF isDiffImageThrows(beforeImage, image)
             THEN [read |-> {"image"}, threw |-> "isDiffImage",
                   before |-> beforeImage, calls |-> <<>>]
             ELSE IF isDiffImage(beforeImage, image)
               THEN IF fault = "imageChange"
                 THEN [read |-> {"image"}, threw |-> "imageChange",
                       before |-> beforeImage,
                       calls |-> <<Call("image", imageChange, image, beforeImage)>>]
                 ELSE [read |-> {"image"}, threw |-> "none", before |-> image,
                       calls |-> <<Call("image", imageChange, image, beforeImage)>>]
               ELSE [read |-> {"image"}, threw |-> "none", before |-> beforeImage,
                     calls |-> <<>>]
    ELSE [read |-> {}, threw |-> "none", before |-> beforeImage, calls |-> <<>>]

\* The image half when the text half threw: it is not run at all.
NotRun == [read |-> {}, threw |-> "none", before |-> beforeImage, calls |-> <<>>]

\* Mutant: the image half runs before the text half.
Tick_imageFirst(a, diff, fault) ==
  LET tx == TickText(diff, fault)
      im == TickImage(fault)
  IN /\ a \in active
     /\ beforeText' = tx.before
     /\ beforeImage' = im.before
     /\ delivered' = delivered \o im.calls \o tx.calls
     /\ everRead' = everRead \cup tx.read \cup im.read
     /\ ticked' = TRUE
     /\ outcome' = "returned"
     /\ last' = last
     /\ UNCHANGED <<variant, option, duration, textChange, imageChange, timer,
                    active, clipboard, created, seedText, seedBits, writes,
                    phase, pausedWrite, probe>>

\* One run of the interval callback of live timer `a`: text, then image.
\* Nothing in it catches: an exception ends the callback and leaves it; the
\* timer is not cleared and fires again.
Tick(a, diff, fault) ==
  LET tx == TickText(diff, fault)
      im == IF tx.threw = "none" THEN TickImage(fault) ELSE NotRun
  IN /\ a \in active
     /\ beforeText' = tx.before
     /\ beforeImage' = im.before
     /\ delivered' = delivered \o tx.calls \o im.calls
     /\ everRead' = everRead \cup tx.read \cup im.read
     /\ ticked' = TRUE
     /\ outcome' = IF tx.threw # "none" THEN tx.threw
                   ELSE IF im.threw # "none" THEN im.threw ELSE "returned"
     /\ last' = [text |-> IF tx.calls # <<>> THEN tx.calls[1].new.s ELSE last.text,
                 bits |-> IF im.calls # <<>> THEN im.calls[1].new.bits ELSE last.bits]
     /\ UNCHANGED <<variant, option, duration, textChange, imageChange, timer,
                    active, clipboard, created, seedText, seedBits, writes,
                    phase, pausedWrite, probe>>

\* src/index.js: the arrow function given to setInterval.
clipboardObserver_tick ==
  \E a \in active :
    variant = "fn" /\ Tick(a, isDiffText(beforeText, readText), "none")

\* class variant: the arrow function setTimer gives to setInterval.
setTimer_tick ==
  \E a \in active :
    /\ variant = "class"
    /\ Tick(a, ClipboardObserver_isDiffText(beforeText, readText), "none")

\* src/index.js: the same arrow function, when a read or a callback throws.
clipboardObserver_tick_throws ==
  \E a \in active, fault \in Faults :
    /\ variant = "fn"
    /\ Len(delivered) < MaxCalls
    /\ Tick(a, isDiffText(beforeText, readText), fault)
    /\ outcome' = fault

\* class variant: the same arrow function, when a read or a callback throws.
setTimer_tick_throws ==
  \E a \in active, fault \in Faults :
    /\ variant = "class"
    /\ Len(delivered) < MaxCalls
    /\ Tick(a, ClipboardObserver_isDiffText(beforeText, readText), fault)
    /\ outcome' = fault

\* ------------------------------------------------------- options ------
\* The option objects a caller can pass.  `duration` may be left out of the
\* object, or be present with the value undefined.
Options ==
  [duration : {NotGiven, UNDEFINED} \cup {Num(d) : d \in GivenDurations},
   textChange : {UNDEFINED} \cup {Fun(c) : c \in Callbacks},
   imageChange : {UNDEFINED} \cup {Fun(c) : c \in Callbacks}]

\* src/index.js: const DEFAULT_OPTIONS = { duration: 500 }
DEFAULT_OPTIONS == [duration |-> Num(500)]

\* Object.assign({}, DEFAULT_OPTIONS, option).duration: an own property of
\* `option` overwrites the default, also when its value is undefined.
assignedDuration(opt) ==
  IF opt.duration = NotGiven THEN DEFAULT_OPTIONS.duration ELSE opt.duration

\* class variant: const { duration } = options; this.duration = duration
\* (the field initialiser `duration = 500` is overwritten unconditionally).
destructuredDuration(opt) ==
  IF opt.duration = NotGiven THEN UNDEFINED ELSE opt.duration

\* ------------------------------------------------------- seeding ------
\* Mutant: the seeding stores nothing (the last-known values stay as they were).
setClipboardDefaultValue_noRead(tc, ic) ==
  /\ UNCHANGED <<beforeText, beforeImage, everRead>>
  /\ seedText' = clipText
  /\ seedBits' = clipBits
  /\ writes' = 0
  /\ ticked' = FALSE
  /\ outcome' = "none"
  /\ last' = [text |-> IF Truthy(tc) THEN clipText ELSE last.text,
              bits |-> IF Truthy(ic) THEN clipBits ELSE last.bits]
  /\ delivered' = <<>>

\* The reads that record the clipboard's present content as last-known
\* values, one per configured callback (src/index.js 39-45; class variant
\* setClipboardDefaultValue).
setClipboardDefaultValue(tc, ic) ==
  /\ beforeText' = IF Truthy(tc) THEN readText ELSE beforeText
  /\ beforeImage' = IF Truthy(ic) THEN readImage(beforeImage) ELSE beforeImage
  /\ everRead' = everRead \cup (IF Truthy(tc) THEN {"text"} ELSE {})
                          \cup (IF Truthy(ic) THEN {"image"} ELSE {})
  /\ seedText' = clipText
  /\ seedBits' = clipBits
  /\ writes' = 0
  /\ ticked' = FALSE
  /\ outcome' = "none"
  /\ last' = [text |-> IF Truthy(tc) THEN clipText ELSE last.text,
              bits |-> IF Truthy(ic) THEN clipBits ELSE last.bits]
  /\ delivered' = <<>>

\* this.timer = setInterval(..., this.duration): a new timer is made and its
\* handle stored; a timer already held is neither cleared nor remembered.
setTimer(ms) ==
  /\ created < MaxTimers
  /\ active' = setInterval(ms)
  /\ timer' = Timeout(created + 1)
  /\ created' = created + 1

\* ------------------------------------------------ function variant ----
\* src/index.js: clipboardObserver(option)
clipboardObserver ==
  \E opt \in Options :
    /\ variant = "none"
    /\ variant' = "fn"
    /\ option' = opt
    /\ duration' = assignedDuration(opt)
    /\ textChange' = opt.textChange
    /\ imageChange' = opt.imageChange
    /\ IF Truthy(opt.textChange) \/ Truthy(opt.imageChange)
         THEN /\ setClipboardDefaultValue(opt.textChange, opt.imageChange)
              /\ setTimer(assignedDuration(opt))
         ELSE UNCHANGED <<beforeText, beforeImage, everRead, seedText, seedBits,
                          writes, ticked, outcome, last, delivered, active, timer,
                          created>>
    /\ phase' = "running"
    /\ UNCHANGED <<clipboard, pausedWrite, probe>>

\* src/index.js: destroy() { clearInterval(timer) }
destroy ==
  /\ variant = "fn"
  /\ active' = clearInterval(timer)
  /\ phase' = "destroyed"
  /\ UNCHANGED <<variant, option, duration, textChange, imageChange, timer,
                 beforeText, beforeImage, clipboard, everRead, created, seedText,
                 seedBits, writes, ticked, outcome, last, delivered, pausedWrite,
                 probe>>

\* --------------------------------------------------- class variant ----
\* Mutant: start() schedules the timer and keeps the last-known values.
start_withoutSeeding ==
  /\ variant = "class"
  /\ setClipboardDefaultValue_noRead(textChange, imageChange)
  /\ setTimer(duration)
  /\ phase' = IF phase \in {"stopped", "restarted"} THEN "restarted" ELSE "running"
  /\ UNCHANGED <<variant, option, duration, textChange, imageChange, clipboard,
                 pausedWrite, probe>>

\* start(): setClipboardDefaultValue(); setTimer()
start ==
  /\ variant = "class"
  /\ setClipboardDefaultValue(textChange, imageChange)
  /\ setTimer(duration)
  /\ phase' = IF phase \in {"stopped", "restarted"} THEN "restarted" ELSE "running"
  /\ UNCHANGED <<variant, option, duration, textChange, imageChange, clipboard,
                 pausedWrite, probe>>

\* stop(): the body calls this.setTimer(), not this.clearTimer()
stop ==
  /\ variant = "class"
  /\ setTimer(duration)
  /\ phase' = "stopped"
  /\ pausedWrite' = FALSE
  /\ UNCHANGED <<variant, option, duration, textChange, imageChange, beforeText,
                 beforeImage, clipboard, everRead, seedText, seedBits, writes,
                 ticked, outcome, last, delivered, probe>>

\* clearTimer(): clearInterval(this.timer)
clearTimer ==
  /\ variant = "class"
  /\ active' = clearInterval(timer)
  /\ UNCHANGED <<variant, option, duration, textChange, imageChange, timer,
                 beforeText, beforeImage, clipboard, everRead, created, seedText,
                 seedBits, writes, ticked, outcome, last, delivered, phase,
                 pausedWrite, probe>>

\* new ClipboardObserver(options)
ClipboardObserver ==
  \E opt \in Options :
    /\ variant = "none"
    /\ variant' = "class"
    /\ option' = opt
    /\ duration' = destructuredDuration(opt)
    /\ textChange' = opt.textChange
    /\ imageChange' = opt.imageChange
    /\ IF Truthy(opt.textChange) \/ Truthy(opt.imageChange)
         THEN /\ setClipboardDefaultValue(opt.textChange, opt.imageChange)
              /\ setTimer(destructuredDuration(opt))
         ELSE UNCHANGED <<beforeText, beforeImage, everRead, seedText, seedBits,
                          writes, ticked, outcome, last, delivered, active, timer,
                          created>>
    /\ phase' = "running"
    /\ UNCHANGED <<clipboard, pausedWrite, probe>>

\* ----------------------------------------------------- environment ----
\* Another program (or the user) puts a text on the clipboard.
WriteText ==
  \E t \in ClipTexts :
    /\ variant \in {"fn", "class"}
    /\ clipText' = t
    /\ writes' = IF writes = 0 THEN 1 ELSE 2
    /\ ticked' = FALSE
    /\ outcome' = "none"
    /\ delivered' = <<>>
    /\ pausedWrite' = (pausedWrite \/ phase = "stopped")
    /\ seedText' = IF writes = 0 THEN seedText ELSE ""
    /\ seedBits' = IF writes = 0 THEN seedBits ELSE 0
    /\ UNCHANGED <<observer, clipBits, everRead, created, last, phase, probe>>

\* Another program puts an image on the clipboard (0: clears it).
WriteImage ==
  \E b \in ClipBits :
    /\ variant \in {"fn", "class"}
    /\ clipBits' = b
    /\ writes' = IF writes = 0 THEN 1 ELSE 2
    /\ ticked' = FALSE
    /\ outcome' = "none"
    /\ delivered' = <<>>
    /\ pausedWrite' = (pausedWrite \/ phase = "stopped")
    /\ seedText' = IF writes = 0 THEN seedText ELSE ""
    /\ seedBits' = IF writes = 0 THEN seedBits ELSE 0
    /\ UNCHANGED <<observer, clipText, everRead, created, last, phase, probe>>

\* ------------------------------------------------------------ spec ----
\* Before construction: nothing is set; the clipboard holds anything.
Unconstructed ==
  /\ option = UNDEFINED
  /\ duration = UNDEFINED
  /\ textChange = UNDEFINED
  /\ imageChange = UNDEFINED
  /\ timer = UNDEFINED
  /\ beforeText = UNDEFINED
  /\ beforeImage = UNDEFINED
  /\ active = {}
  /\ everRead = {}
  /\ created = 0
  /\ seedText = ""
  /\ seedBits = 0
  /\ writes = 0
  /\ ticked = FALSE
  /\ outcome = "none"
  /\ last = [text |-> "", bits |-> 0]
  /\ delivered = <<>>
  /\ phase = "none"
  /\ pausedWrite = FALSE

Init ==
  /\ variant = "none"
  /\ Unconstructed
  /\ clipText \in ClipTexts
  /\ clipBits \in ClipBits
  /\ probe = NoProbe

Next ==
  \/ clipboardObserver
  \/ clipboardObserver_tick
  \/ destroy
  \/ ClipboardObserver
  \/ start
  \/ stop
  \/ clearTimer
  \/ setTimer_tick
  \/ WriteText
  \/ WriteImage

Spec == Init /\ [][Next]_vars

\* class variant: `observer.duration = d` on a constructed instance. The
\* fields are public; the assignment runs no code of the observer.
set_duration ==
  \E d \in LiveDurations :
    /\ variant = "class"
    /\ duration # Num(d)
    /\ duration' = Num(d)
    /\ UNCHANGED <<variant, option, textChange, imageChange, timer, beforeText,
                   beforeImage, active, clipboard, history, probe>>

\* class variant: `observer.textChange = cb` on a constructed instance.
set_textChange ==
  \E cb \in {UNDEFINED} \cup {Fun(c) : c \in LiveCallbacks} :
    /\ variant = "class"
    /\ textChange # cb
    /\ textChange' = cb
    /\ UNCHANGED <<variant, option, duration, imageChange, timer, beforeText,
                   beforeImage, active, clipboard, history, probe>>

\* class variant: `observer.imageChange = cb` on a constructed instance.
set_imageChange ==
  \E cb \in {UNDEFINED} \cup {Fun(c) : c \in LiveCallbacks} :
    /\ variant = "class"
    /\ imageChange # cb
    /\ imageChange' = cb
    /\ UNCHANGED <<variant, option, duration, textChange, timer, beforeText,
                   beforeImage, active, clipboard, history, probe>>

\* The class instance whose fields the client reassigns while it runs.
NextLive ==
  \/ ClipboardObserver
  \/ setTimer_tick
  \/ set_duration
  \/ set_textChange
  \/ set_imageChange
  \/ WriteText
  \/ WriteImage

SpecLive == Init /\ [][NextLive]_vars

\* The observer of a client that constructs it once and lets it run (no
\* start() or stop() afterwards), when clipboard reads and callbacks may throw.
NextFault ==
  \/ clipboardObserver
  \/ ClipboardObserver
  \/ clipboardObserver_tick
  \/ setTimer_tick
  \/ clipboardObserver_tick_throws
  \/ setTimer_tick_throws
  \/ destroy
  \/ clearTimer
  \/ WriteText
  \/ WriteImage

SpecFault == Init /\ [][NextFault]_vars

\* ------------------------------------- the diff predicates alone ------
\* The arguments the predicates are applied to: every text value a caller
\* can hold (undefined included), every image wrapper (two objects may hold
\* the same pixels), and undefined.
TextArgs == {UNDEFINED} \cup {Str(t) : t \in ClipTexts}
ImageArgs == {UNDEFINED} \cup {Img(o, b) : o \in {1, 2}, b \in ClipBits}

Probes ==
  [fn : {"isDiffText", "ClipboardObserver_isDiffText"},
   before : TextArgs, after : TextArgs,
   done : {FALSE}, threw : {FALSE}, diff : {FALSE}]
  \cup
  [fn : {"isDiffImage"},
   before : ImageArgs, after : ImageArgs,
   done : {FALSE}, threw : {FALSE}, diff : {FALSE}]

\* No observer is constructed here: the predicates are only called.
InitDiff ==
  /\ variant = "diff"
  /\ Unconstructed
  /\ clipText = ""
  /\ clipBits = 0
  /\ probe \in Probes

\* isDiffText(before, after) of src/index.js is called and returns.
apply_isDiffText ==
  /\ probe.fn = "isDiffText" /\ ~probe.done
  /\ probe' = [probe EXCEPT !.done = TRUE,
                            !.diff = isDiffText(probe.before, probe.after)]
  /\ UNCHANGED <<observer, clipboard, history>>

\* this.isDiffText(before, after) of the class is called and returns.
apply_ClipboardObserver_isDiffText ==
  /\ probe.fn = "ClipboardObserver_isDiffText" /\ ~probe.done
  /\ probe' = [probe EXCEPT !.done = TRUE,
                 !.diff = ClipboardObserver_isDiffText(probe.before, probe.after)]
  /\ UNCHANGED <<observer, clipboard, history>>

\* isDiffImage(before, after) is called and returns or throws.
apply_isDiffImage ==
  /\ probe.fn = "isDiffImage" /\ ~probe.done
  /\ probe' = IF isDiffImageThrows(probe.before, probe.after)
                THEN [probe EXCEPT !.done = TRUE, !.threw = TRUE]
                ELSE [probe EXCEPT !.done = TRUE,
                        !.diff = isDiffImage(probe.before, probe.after)]
  /\ UNCHANGED <<observer, clipboard, history>>

NextDiff ==
  \/ apply_isDiffText
  \/ apply_ClipboardObserver_isDiffText
  \/ apply_isDiffImage

\* The diff predicates on every pair of arguments.
SpecDiff == InitDiff /\ [][NextDiff]_vars

\* The observer, and beside it the diff predicates on every pair of arguments.
SpecAll == (Init \/ InitDiff) /\ [][Next \/ NextDiff]_vars

\* ============================================================ claims ====
\* What a callback invocation carried, whichever wrapper object held the image.
IsTextCall(c, new, prev) ==
  c.ch = "text" /\ c.new = Str(new) /\ c.prev = Str(prev)

IsImageCall(c, newBits, prevBits) ==
  /\ c.ch = "image"
  /\ c.new.t = "NativeImage" /\ c.new.bits = newBits
  /\ c.prev.t = "NativeImage" /\ c.prev.bits = prevBits

TextCalls(calls) == SelectSeq(calls, LAMBDA c : c.ch = "text")
ImageCalls(calls) == SelectSeq(calls, LAMBDA c : c.ch = "image")

Constructed == variant \in {"fn", "class"}

\* The clipboard was written once since the seeding, a tick has run since,
\* and the text now differs from the seeded text and is not empty.
TextChangedOnce ==
  /\ Constructed /\ Truthy(textChange) /\ active # {}
  /\ writes = 1 /\ ticked
  /\ clipText # "" /\ clipText # seedText

\* C1: with a text callback and the text A at seeding, once the text is set
\* to a different non-empty B and a tick has run, the callback has been
\* invoked exactly once, with (B, A), however many ticks ran since.
C1_OncePerChange ==
  TextChangedOnce =>
    /\ Len(TextCalls(delivered)) = 1
    /\ IsTextCall(TextCalls(delivered)[1], clipText, seedText)

\* C2: each text diff predicate reports a change iff the current text is a
\* non-empty string that is not equal to the previous text (which may be
\* empty or undefined).
C2_DiffTextIff ==
  (probe.done /\ probe.fn \in {"isDiffText", "ClipboardObserver_isDiffText"}) =>
    (probe.diff <=>
       (probe.after \in {Str(t) : t \in Texts} /\ probe.after # probe.before))

C4_AtMostOneTimer == Cardinality(active) <= 1

\* C5: after stop() (destroy() in the function variant), and until the next
\* start(), no timer is active.
C5_StopHaltsPolling ==
  phase \in {"stopped", "destroyed"} => active = {}

\* What one tick delivers for the first write after a seeding: a call per
\* configured channel whose content is not empty and differs from the seeded
\* content, the text call first.
FirstChangeDelivered(calls) ==
  LET tx == Truthy(textChange) /\ clipText # "" /\ clipText # seedText
      im == Truthy(imageChange) /\ clipBits # 0 /\ clipBits # seedBits
  IN /\ Len(calls) = (IF tx THEN 1 ELSE 0) + (IF im THEN 1 ELSE 0)
     /\ tx => IsTextCall(calls[1], clipText, seedText)
     /\ im => IsImageCall(calls[Len(calls)], clipBits, seedBits)

\* C6: after stop() and then start(), no callback fires until the clipboard
\* is written again (so a change made while stopped is never delivered),
\* and the first change written after the restart is delivered exactly
\* once, with the re-seeded value as the previous value.
C6_RestartReseeds ==
  phase = "restarted" =>
    /\ writes = 0 => delivered = <<>>
    /\ (writes = 1 /\ ticked) => FirstChangeDelivered(delivered)

\* The clipboard changed while stopped; after the restart it changed again
\* and a tick delivered that change.
C6_Witness ==
  /\ phase = "restarted" /\ pausedWrite
  /\ writes = 1 /\ ticked
  /\ Len(delivered) = 1 /\ delivered[1].ch = "text"
  /\ seedText # ""

\* C7: an observer constructed with neither callback never creates a timer
\* and never reads the clipboard.
C7_DormantNeverPolls ==
  (Constructed /\ ~Truthy(option.textChange) /\ ~Truthy(option.imageChange)) =>
    (created = 0 /\ everRead = {})

\* C8: while the clipboard has not been written since the seeding, no
\* callback has been invoked, whatever was on the clipboard at the seeding,
\* and the last-known value of each configured channel is what the
\* clipboard holds.
C8_NoSpuriousFirstTick ==
  (Constructed /\ writes = 0) =>
    /\ delivered = <<>>
    /\ Truthy(textChange) => beforeText = Str(clipText)
    /\ Truthy(imageChange) =>
         (beforeImage.t = "NativeImage" /\ beforeImage.bits = clipBits)

\* Both callbacks are configured, text and image were on the clipboard at
\* the seeding, and a tick has run with the clipboard not written since.
C8_Witness ==
  /\ Constructed /\ writes = 0 /\ ticked
  /\ Truthy(textChange) /\ Truthy(imageChange)
  /\ clipText # "" /\ clipBits # 0
  /\ delivered = <<>>

\* C9: a channel whose callback is not configured is never read, neither at
\* seeding nor on a tick.
C9_UnconfiguredChannelNeverRead ==
  Constructed =>
    /\ ~Truthy(textChange) => "text" \notin everRead
    /\ ~Truthy(imageChange) => "image" \notin everRead

\* An observer with only the text callback has been seeded and has ticked:
\* it read the text and never the image.
C9_Witness ==
  /\ Constructed /\ Truthy(textChange) /\ ~Truthy(imageChange)
  /\ ticked /\ everRead = {"text"}

\* C10: every timer is scheduled with the given duration, or with 500 ms
\* when the configuration gives none (left out, or undefined).
C10_IntervalIsDurationOrDefault ==
  \A a \in active :
    a.ms = (IF option.duration \in {NotGiven, UNDEFINED}
              THEN Num(500) ELSE option.duration)

\* C11: a clipboard read that fails during a tick is treated as no change for
\* that tick and nothing else is disturbed: after a tick whose text read
\* failed, a configured image channel has still been evaluated in that tick,
\* so no non-empty image differing from the last-known one is left undelivered.
C11_ReadFailureIsNoChange ==
  (outcome = "readText" /\ Truthy(imageChange) /\ beforeImage # UNDEFINED) =>
    ~isDiffImage(beforeImage, readImage(beforeImage))

\* C12: when a change callback throws during a tick, the last-known value of
\* its channel is nevertheless the value just read (so the next tick over an
\* unchanged clipboard finds no difference on that channel).
C12_ThrowingCallbackStillUpdates ==
  /\ outcome = "textChange" => beforeText = Str(clipText)
  /\ outcome = "imageChange" =>
       (beforeImage # UNDEFINED /\ beforeImage.bits = clipBits)

\* C13: when the observer was seeded over an empty clipboard text and the text
\* is then set to a non-empty T, the next tick invokes the text callback with T
\* as the new value (and the empty seeded text as the previous one).
C13_FirstTextAfterEmptySeed ==
  (/\ Constructed /\ Truthy(textChange) /\ active # {}
   /\ seedText = "" /\ writes = 1 /\ clipText # "" /\ outcome = "returned") =>
    /\ TextCalls(delivered) # <<>>
    /\ TextCalls(delivered)[1].new = Str(clipText)

\* The variant's text predicate, on the last-known text and the text a tick
\* would read now.
DiffText ==
  IF variant = "fn" THEN isDiffText(beforeText, readText)
                    ELSE ClipboardObserver_isDiffText(beforeText, readText)

\* The image predicate, on the last-known image and the image a tick would
\* read now.
DiffImage ==
  /\ ~isDiffImageThrows(beforeImage, readImage(beforeImage))
  /\ isDiffImage(beforeImage, readImage(beforeImage))

\* One run of the interval callback in which nothing throws.
TickStep == clipboardObserver_tick \/ setTimer_tick

\* C14: on every tick where a configured channel's diff predicate reports no
\* difference (every tick that reads an empty text included), no callback is
\* invoked for that channel and its last-known value stays as it was; hence no
\* text callback invocation ever has an empty new text, or a new text equal to
\* its previous text (text A cleared and set back to A fires nothing).
C14_NoDifferenceNoEffect ==
  [][TickStep =>
       /\ (Truthy(textChange) /\ ~DiffText) =>
            /\ beforeText' = beforeText
            /\ TextCalls(delivered') = TextCalls(delivered)
       /\ (Truthy(imageChange) /\ ~DiffImage) =>
            /\ beforeImage' = beforeImage
            /\ ImageCalls(delivered') = ImageCalls(delivered)
       /\ \A i \in DOMAIN delivered' :
            delivered'[i].ch = "text" =>
              delivered'[i].new \notin {Str(""), delivered'[i].prev}]_vars

\* A tick has read an empty text while the last-known text is not empty, and
\* has invoked nothing.
C14_Witness ==
  /\ Truthy(textChange) /\ outcome = "returned"
  /\ clipText = "" /\ beforeText \in {Str(t) : t \in Texts}
  /\ delivered = <<>>

\* The invocations a step adds to the record.
NewCalls == SubSeq(delivered', Len(delivered) + 1, Len(delivered'))

\* C15: every tick evaluates both configured channels, text first and then
\* image: a channel's callback is invoked in the tick exactly when that
\* channel's predicate reports a difference, whatever the other channel did,
\* and when both are invoked the text callback comes first.
C15_TextThenImage ==
  [][TickStep =>
       /\ Len(TextCalls(NewCalls)) =
            (IF Truthy(textChange) /\ DiffText THEN 1 ELSE 0)
       /\ Len(ImageCalls(NewCalls)) =
            (IF Truthy(imageChange) /\ DiffImage THEN 1 ELSE 0)
       /\ NewCalls = TextCalls(NewCalls) \o ImageCalls(NewCalls)]_vars

\* One tick has delivered a text change and then an image change.
C15_Witness ==
  /\ outcome = "returned" /\ Len(delivered) = 2
  /\ delivered[1].ch = "text" /\ delivered[1].new = Str(clipText)
  /\ delivered[2].ch = "image" /\ delivered[2].new.bits = clipBits

\* C18: per channel, across the ticks since the last seeding, every callback
\* invocation receives a new value that differs from its previous value; its
\* previous value is the new value of the preceding invocation on the channel,
\* or the seeded value when there was none; and after the invocation the
\* last-known value is the new value delivered.
C18_InvocationChain ==
  [][TickStep =>
       \A i \in DOMAIN NewCalls :
         LET c == NewCalls[i] IN
         IF c.ch = "text"
           THEN /\ c.new # c.prev
                /\ c.prev = Str(last.text)
                /\ beforeText' = c.new
           ELSE /\ c.new.bits # c.prev.bits
                /\ c.prev.bits = last.bits
                /\ beforeImage' = c.new]_vars

\* After two or more clipboard writes since the seeding, a tick has delivered
\* the text A with the last-known text B as its previous value, and A is now
\* the last-known text.
C18_Witness ==
  /\ outcome = "returned" /\ writes = 2
  /\ Len(delivered) = 1 /\ delivered[1].ch = "text"
  /\ delivered[1].new = Str("A") /\ delivered[1].prev = Str("B")
  /\ beforeText = Str("A")

\* One run of the interval callback, whether or not something throws in it.
AnyTick == TickStep \/ clipboardObserver_tick_throws \/ setTimer_tick_throws

\* C16: a callback that threw during a tick neither stops observation nor
\* leaves the observer in a state that hides later changes: on a later tick
\* whose reads succeed, a non-empty image that differs from the last-known one
\* is delivered to the image callback, also when the text callback threw on an
\* earlier tick (the last-known text then still lags behind the text that was
\* handed to the callback).
C16_ThrowingCallbackKeepsObserving ==
  [][(/\ AnyTick
      /\ outcome' \notin {"readText", "readImage"}
      /\ Truthy(textChange) /\ beforeText # Str(last.text)
      /\ Truthy(imageChange) /\ DiffImage)
       => ImageCalls(NewCalls) # <<>>]_vars

\* The callback field a recorded invocation's channel is served by.
CallbackOf(c) == IF c.ch = "text" THEN textChange ELSE imageChange

\* An assignment to a field of the live class instance.
Reassign == set_duration \/ set_textChange \/ set_imageChange

====
